---- MODULE Spec2Model ----
(***************************************************************************)
(* Model of the agent context databases of SoMaCoSF/aegis:                *)
(*   database/context/init_context_db.py  (schema initializer)            *)
(*   database/context/log_session.py      (session logger CLI)            *)
(* The state is the two database files, the wall clock the store reads    *)
(* for its timestamps, the connection of the last invocation and what the *)
(* last invocation printed.  Every CLI invocation is one action.          *)
(*                                                                         *)
(* Four specifications share the actions and differ in the commands and   *)
(* arguments they draw: Spec (every command, one agent), SpecStatus (the  *)
(* session commands and listings, several agents), SpecInit (the          *)
(* initializer among writing commands) and SpecRecover (the recovery      *)
(* report under a running clock).  In the first three all invocations     *)
(* fall within one second of the clock.                                   *)
(***************************************************************************)
EXTENDS FiniteSets, Integers, Sequences, TLC

VARIABLES ctx, tasks, now, conn, out

vars == <<ctx, tasks, now, conn, out>>

----------------------------------------------------------------------------
(* Bounds of the model *)

MaxWindows == 2
MaxActions == 2
MaxSnapshots == 1
MaxClock == 1

----------------------------------------------------------------------------
(* Values *)

NULL == -1
None == "<None>"

SeedAgentId == "AGENT-PRIME-002"
AgentIds == {SeedAgentId, "AGENT-X"}
AgentArgs == AgentIds \cup {None, ""}
Summaries == {"s1", "s2"}
ActionTypes == {"edit"}
Tasks == {"task A", "task B"}
ActionSummaries == {"a1", "a2"}
LoggerCmds == {"start", "action", "snapshot", "end", "status", "recover"}
RecoverLimit == 5

Max(S) == CHOOSE x \in S : \A y \in S : y <= x

----------------------------------------------------------------------------
(* The database files *)

CONTEXT_SCHEMA == {"agents", "activity_windows", "action_log", "context_snapshots", "handoffs"}
TASKS_SCHEMA == {"projects", "tasks", "task_history", "task_comments", "task_dependencies"}

(* A file that does not exist: no tables, no rows. *)
EmptyDb == [exists |-> FALSE, rows |-> [t \in {} |-> {}]]

Tables(db) == DOMAIN db.rows

(* sqlite3.connect creates the file when it is missing. *)
Connect(db) == [db EXCEPT !.exists = TRUE]

(* conn.executescript(schema_sql): the schema creates each of its tables   *)
(* when it is absent and leaves the rows of an existing table alone.       *)
ExecuteScript(db, schema) ==
    [exists |-> TRUE,
     rows |-> [t \in Tables(db) \cup schema |->
                 IF t \in Tables(db) THEN db.rows[t] ELSE {}]]

(* run_schema: remove the file in reset mode, then apply the schema. *)
(* Variant that never removes the file. *)
RunSchemaNoRemove(db, schema, reset) == ExecuteScript(Connect(db), schema)

RunSchema(db, schema, reset) ==
    LET d == IF reset /\ db.exists THEN EmptyDb ELSE db
    IN ExecuteScript(Connect(d), schema)

(* INSERT OR IGNORE: the row is skipped when its unique id is taken. *)
(* Variant INSERT OR REPLACE: the row with that id is overwritten. *)
InsertOrReplace(rows, row) == {r \in rows : r.id # row.id} \cup {row}

InsertOrIgnore(rows, row) ==
    IF \E r \in rows : r.id = row.id THEN rows ELSE rows \cup {row}

SeedAgent ==
    [id |-> SeedAgentId, name |-> "agent_prime", status |-> "active",
     last_active_at |-> NULL]

SeedProjectIds == <<"AEGIS", "GHOST_SHELL", "DMBT", "SOMACOSF-CORE">>

SeedProject(i) ==
    [id |-> SeedProjectIds[i],
     name |-> <<"AEGIS", "Ghost Shell", "DMBT", "Somacosf Core">>[i],
     created_by |-> SeedAgentId, status |-> "active"]

RECURSIVE SeedProjects(_, _)
SeedProjects(rows, i) ==
    IF i > Len(SeedProjectIds) THEN rows
    ELSE SeedProjects(InsertOrIgnore(rows, SeedProject(i)), i + 1)

SeedInitialData(db) ==
    LET c == Connect(db)
        d1 == IF "agents" \in Tables(c)
              THEN [c EXCEPT !.rows["agents"] = InsertOrIgnore(@, SeedAgent)]
              ELSE c
    IN IF "projects" \in Tables(d1)
       THEN [d1 EXCEPT !.rows["projects"] = SeedProjects(@, 1)]
       ELSE d1

(* verify_databases: the expected tables a database lacks. *)
MissingTables(db, expected) == expected \ Tables(db)

----------------------------------------------------------------------------
(* What an invocation printed *)

NoOut ==
    [cmd |-> "none", agent_id |-> None, window_id |-> 0, summary |-> "",
     reset |-> FALSE, removed |-> FALSE, result |-> "ok", new_id |-> 0,
     status_rows |-> {}, sessions |-> <<>>]

NoConn == [opened |-> 0, state |-> "closed"]
Closed(n) == [opened |-> n, state |-> "closed"]

(* A connection the handler leaves without conn.close(): it stays open     *)
(* until the runtime finalizes the object, which may or may not have      *)
(* happened when the call returns.                                         *)
Leaked == {[opened |-> 1, state |-> s] : s \in {"open", "closed"}}

----------------------------------------------------------------------------
(* init_context_db.py main *)

InitMain(reset) ==
    LET c1 == SeedInitialData(RunSchema(ctx, CONTEXT_SCHEMA, reset))
        t1 == SeedInitialData(RunSchema(tasks, TASKS_SCHEMA, reset))
        warn == MissingTables(c1, CONTEXT_SCHEMA) \cup MissingTables(t1, TASKS_SCHEMA)
    IN /\ ctx' = c1
       /\ tasks' = t1
       /\ conn' = Closed(6)
       /\ out' = [NoOut EXCEPT !.cmd = "init", !.reset = reset,
                               !.removed = reset /\ ctx.exists,
                               !.result = IF warn = {} THEN "ok" ELSE "warning"]
       /\ UNCHANGED now

----------------------------------------------------------------------------
(* log_session.py: queries and statements *)

Windows(db) == db.rows["activity_windows"]
Actions(db) == db.rows["action_log"]
Snapshots(db) == db.rows["context_snapshots"]

(* datetime('now') in a statement: the wall clock, read to the second. *)
DatetimeNow == now

(* The value the store gives started_at and timestamp, which the inserts   *)
(* leave out: the time of the insert, read from the same clock.            *)
DefaultTimestamp == now

(* cur.lastrowid of an insert into a table with an auto-assigned id. *)
NextRowId(rows) == IF rows = {} THEN 1 ELSE Max({r.id : r \in rows}) + 1

(* UPDATE agents SET last_active_at = datetime('now') WHERE id = ? *)
TouchAgent(agents, agent_id, t) ==
    {IF a.id = agent_id THEN [a EXCEPT !.last_active_at = t] ELSE a : a \in agents}

(* INSERT INTO activity_windows (agent_id, session_summary, status) *)
NewWindow(id, agent_id, summary, t) ==
    [id |-> id, agent_id |-> agent_id, started_at |-> t, ended_at |-> NULL,
     status |-> "active", session_summary |-> summary]

(* SELECT agent_id FROM activity_windows WHERE id = ?  (fetchone) *)
(* Variant without the WHERE clause. *)
AnyWindowAgent(db, window_id) == {w.agent_id : w \in Windows(db)}

WindowAgent(db, window_id) == {w.agent_id : w \in {x \in Windows(db) : x.id = window_id}}

(* INSERT INTO action_log (window_id, agent_id, action_type, ...) *)
(* Variant that binds the wrong value to window_id. *)
NewActionWrongWindow(id, window_id, agent_id, action_type, summary, t) ==
    [id |-> id, window_id |-> id, agent_id |-> agent_id,
     action_type |-> action_type, action_summary |-> summary,
     target |-> "NULL", result |-> "success", timestamp |-> t]

NewAction(id, window_id, agent_id, action_type, summary, t) ==
    [id |-> id, window_id |-> window_id, agent_id |-> agent_id,
     action_type |-> action_type, action_summary |-> summary,
     target |-> "NULL", result |-> "success", timestamp |-> t]

(* json.dumps(x or []) of an omitted list argument. *)
JsonEmptyList == "[]"

NewSnapshot(id, window_id, agent_id, current_task, t) ==
    [id |-> id, window_id |-> window_id, agent_id |-> agent_id,
     current_task |-> current_task, pending_items |-> JsonEmptyList,
     files_modified |-> JsonEmptyList, decisions_made |-> JsonEmptyList,
     blockers |-> JsonEmptyList, next_steps |-> JsonEmptyList, timestamp |-> t]

(* UPDATE activity_windows SET ended_at, status, session_summary WHERE id = ? *)
(* Variant without the WHERE clause. *)
EndAllWindows(windows, window_id, summary, t) ==
    {[w EXCEPT !.ended_at = t, !.status = "completed", !.session_summary = summary]
       : w \in windows}

EndWindow(windows, window_id, summary, t) ==
    {IF w.id = window_id
     THEN [w EXCEPT !.ended_at = t, !.status = "completed", !.session_summary = summary]
     ELSE w : w \in windows}

(* Python truth of the optional agent_id argument: None and "" are false. *)
Truthy(agent_id) == agent_id \notin {None, ""}

(* WHERE [aw.agent_id = ? AND] aw.status = 'active' *)
(* Variant without the status condition. *)
AllWindowsOf(db, agent_id) ==
    IF Truthy(agent_id)
    THEN {w \in Windows(db) : w.agent_id = agent_id}
    ELSE Windows(db)

ActiveWindows(db, agent_id) ==
    IF Truthy(agent_id)
    THEN {w \in Windows(db) : w.agent_id = agent_id /\ w.status = "active"}
    ELSE {w \in Windows(db) : w.status = "active"}

(* The correlated subquery: SELECT COUNT of action_log WHERE window_id = aw.id *)
(* Variant whose count is not correlated with the window. *)
CountAllActions(db, window_id) == Cardinality(Actions(db))

ActionCount(db, window_id) ==
    Cardinality({a \in Actions(db) : a.window_id = window_id})

StatusRow(db, w) ==
    [id |-> w.id, agent_id |-> w.agent_id, started_at |-> w.started_at,
     session_summary |-> w.session_summary, actions |-> ActionCount(db, w.id)]

StatusQuery(db, agent_id) == {StatusRow(db, w) : w \in ActiveWindows(db, agent_id)}

(* ORDER BY key DESC: every order of the rows in which the key never      *)
(* increases; rows with equal keys come in an order the store chooses.    *)
RECURSIVE OrderByDesc(_, _)
OrderByDesc(rows, key) ==
    IF rows = {} THEN {<<>>}
    ELSE UNION {{<<r>> \o t : t \in OrderByDesc(rows \ {r}, key)}
                  : r \in {x \in rows : \A y \in rows : y[key] <= x[key]}}

Limit(s, n) == SubSeq(s, 1, IF Len(s) < n THEN Len(s) ELSE n)

SessionRow(w) ==
    [id |-> w.id, agent_id |-> w.agent_id, started_at |-> w.started_at,
     session_summary |-> w.session_summary]

SnapshotRow(r) ==
    [current_task |-> r.current_task, pending_items |-> r.pending_items,
     next_steps |-> r.next_steps, timestamp |-> r.timestamp]

ActionRow(r) ==
    [action_type |-> r.action_type, action_summary |-> r.action_summary,
     target |-> r.target, timestamp |-> r.timestamp]

(* fetchall: the selected columns of each row, in the order of the rows. *)
SnapshotRows(s) == [i \in 1..Len(s) |-> SnapshotRow(s[i])]

ActionRows(s) == [i \in 1..Len(s) |-> ActionRow(s[i])]

(* ... FROM context_snapshots WHERE window_id = ? ORDER BY timestamp DESC LIMIT 1 *)
LastSnapshot(db, window_id) ==
    {SnapshotRows(Limit(s, 1))
       : s \in OrderByDesc({r \in Snapshots(db) : r.window_id = window_id}, "timestamp")}

(* ... FROM action_log WHERE window_id = ? ORDER BY timestamp DESC LIMIT 5 *)
LastActions(db, window_id) ==
    {ActionRows(Limit(s, RecoverLimit))
       : s \in OrderByDesc({r \in Actions(db) : r.window_id = window_id}, "timestamp")}

(* The reports the loop over the sessions can print. *)
RECURSIVE SessionReports(_, _)
SessionReports(db, sessions) ==
    IF sessions = <<>> THEN {<<>>}
    ELSE {<<[session |-> SessionRow(Head(sessions)), snapshot |-> sn, actions |-> ac]>> \o rest
            : sn \in LastSnapshot(db, Head(sessions).id),
              ac \in LastActions(db, Head(sessions).id),
              rest \in SessionReports(db, Tail(sessions))}

RecoveryReports(db, agent_id) ==
    UNION {SessionReports(db, s) : s \in OrderByDesc(ActiveWindows(db, agent_id), "started_at")}

----------------------------------------------------------------------------
(* log_session.py: the six commands *)

(* A statement on a table the file does not have raises                   *)
(* sqlite3.OperationalError out of the handler.                            *)
Raise(cmd) ==
    /\ ctx' = Connect(ctx)
    /\ conn' \in Leaked
    /\ out' = [NoOut EXCEPT !.cmd = cmd, !.result = "raised"]
    /\ UNCHANGED <<tasks, now>>

StartSession(agent_id, summary) ==
    LET c == Connect(ctx) IN
    IF ~ ({"agents", "activity_windows"} \subseteq Tables(c)) THEN Raise("start")
    ELSE LET window_id == NextRowId(Windows(c)) IN
         /\ ctx' = [c EXCEPT
                      !.rows["agents"] = TouchAgent(@, agent_id, DatetimeNow),
                      !.rows["activity_windows"] =
                          @ \cup {NewWindow(window_id, agent_id, summary, DefaultTimestamp)}]
         /\ conn' = Closed(1)
         /\ out' = [NoOut EXCEPT !.cmd = "start", !.agent_id = agent_id,
                                 !.summary = summary, !.new_id = window_id,
                                 !.window_id = window_id]
         /\ UNCHANGED <<tasks, now>>

LogAction(window_id, action_type, summary) ==
    LET c == Connect(ctx) IN
    IF ~ ({"activity_windows", "action_log"} \subseteq Tables(c)) THEN Raise("action")
    ELSE IF WindowAgent(c, window_id) = {}
    THEN /\ ctx' = c
         /\ conn' \in Leaked
         /\ out' = [NoOut EXCEPT !.cmd = "action", !.window_id = window_id,
                                 !.summary = summary, !.result = "not_found"]
         /\ UNCHANGED <<tasks, now>>
    ELSE LET agent_id == CHOOSE a \in WindowAgent(c, window_id) : TRUE
             action_id == NextRowId(Actions(c)) IN
         /\ ctx' = [c EXCEPT !.rows["action_log"] =
                      @ \cup {NewAction(action_id, window_id, agent_id, action_type, summary, DefaultTimestamp)}]
         /\ conn' = Closed(1)
         /\ out' = [NoOut EXCEPT !.cmd = "action", !.window_id = window_id,
                                 !.summary = summary, !.new_id = action_id]
         /\ UNCHANGED <<tasks, now>>

CreateSnapshot(window_id, current_task) ==
    LET c == Connect(ctx) IN
    IF ~ ({"activity_windows", "context_snapshots"} \subseteq Tables(c)) THEN Raise("snapshot")
    ELSE IF WindowAgent(c, window_id) = {}
    THEN /\ ctx' = c
         /\ conn' \in Leaked
         /\ out' = [NoOut EXCEPT !.cmd = "snapshot", !.window_id = window_id,
                                 !.summary = current_task, !.result = "not_found"]
         /\ UNCHANGED <<tasks, now>>
    ELSE LET agent_id == CHOOSE a \in WindowAgent(c, window_id) : TRUE
             snapshot_id == NextRowId(Snapshots(c)) IN
         /\ ctx' = [c EXCEPT !.rows["context_snapshots"] =
                      @ \cup {NewSnapshot(snapshot_id, window_id, agent_id, current_task, DefaultTimestamp)}]
         /\ conn' = Closed(1)
         /\ out' = [NoOut EXCEPT !.cmd = "snapshot", !.window_id = window_id,
                                 !.summary = current_task, !.new_id = snapshot_id]
         /\ UNCHANGED <<tasks, now>>

EndSession(window_id, summary) ==
    LET c == Connect(ctx) IN
    IF ~ ("activity_windows" \in Tables(c)) THEN Raise("end")
    ELSE /\ ctx' = [c EXCEPT !.rows["activity_windows"] =
                      EndWindow(@, window_id, summary, DatetimeNow)]
         /\ conn' = Closed(1)
         /\ out' = [NoOut EXCEPT !.cmd = "end", !.window_id = window_id,
                                 !.summary = summary]
         /\ UNCHANGED <<tasks, now>>

ShowStatus(agent_id) ==
    LET c == Connect(ctx) IN
    IF ~ ({"activity_windows", "action_log"} \subseteq Tables(c)) THEN Raise("status")
    ELSE LET rows == StatusQuery(c, agent_id) IN
         /\ ctx' = c
         /\ conn' = Closed(1)
         /\ out' = [NoOut EXCEPT !.cmd = "status", !.agent_id = agent_id,
                                 !.result = IF rows = {} THEN "empty" ELSE "ok",
                                 !.status_rows = rows]
         /\ UNCHANGED <<tasks, now>>

RecoverSession(agent_id) ==
    LET c == Connect(ctx) IN
    IF ~ ({"activity_windows", "action_log", "context_snapshots"} \subseteq Tables(c))
    THEN Raise("recover")
    ELSE IF ActiveWindows(c, agent_id) = {}
    THEN /\ ctx' = c
         /\ conn' \in Leaked
         /\ out' = [NoOut EXCEPT !.cmd = "recover", !.agent_id = agent_id,
                                 !.result = "empty"]
         /\ UNCHANGED <<tasks, now>>
    ELSE \E report \in RecoveryReports(c, agent_id) :
         /\ ctx' = c
         /\ conn' = Closed(1)
         /\ out' = [NoOut EXCEPT !.cmd = "recover", !.agent_id = agent_id,
                                 !.sessions = report]
         /\ UNCHANGED <<tasks, now>>

(* The wall clock moves on between invocations. *)
Tick ==
    /\ now' = now + 1
    /\ UNCHANGED <<ctx, tasks, conn, out>>

Init ==
    /\ ctx = EmptyDb
    /\ tasks = EmptyDb
    /\ now = 0
    /\ conn = NoConn
    /\ out = NoOut

(* Guards that keep the tables and the clock within the bounds. *)
Room(db, table, max) == table \in Tables(db) => Cardinality(db.rows[table]) < max

WindowArgs == 1..(MaxWindows + 1)

(* Every command of both tools, one agent. *)
Next ==
    \/ \E reset \in BOOLEAN : InitMain(reset)
    \/ Room(ctx, "activity_windows", MaxWindows) /\ StartSession(SeedAgentId, "s1")
    \/ \E w \in WindowArgs, t \in ActionTypes :
          Room(ctx, "action_log", MaxActions) /\ LogAction(w, t, "a1")
    \/ \E w \in WindowArgs :
          Room(ctx, "context_snapshots", MaxSnapshots) /\ CreateSnapshot(w, "task A")
    \/ \E w \in WindowArgs : EndSession(w, "done")
    \/ ShowStatus(None)
    \/ RecoverSession(None)

Spec == Init /\ [][Next]_vars

(* The session commands and the listings, for several agents, seeded or   *)
(* not, and every form of the agent filter.                                *)
NextStatus ==
    \/ InitMain(FALSE)
    \/ \E a \in AgentIds, s \in Summaries :
          Room(ctx, "activity_windows", MaxWindows) /\ StartSession(a, s)
    \/ \E w \in WindowArgs, t \in ActionTypes :
          Room(ctx, "action_log", MaxActions) /\ LogAction(w, t, "a1")
    \/ \E w \in WindowArgs : EndSession(w, "done")
    \/ \E a \in AgentArgs : ShowStatus(a)
    \/ \E a \in {None, SeedAgentId} : RecoverSession(a)

SpecStatus == Init /\ [][NextStatus]_vars

(* The initializer, run again and again, between commands that write. *)
NextInit ==
    \/ \E reset \in BOOLEAN : InitMain(reset)
    \/ \E a \in AgentIds :
          Room(ctx, "activity_windows", MaxWindows) /\ StartSession(a, "s1")
    \/ \E w \in WindowArgs, t \in ActionTypes :
          Room(ctx, "action_log", MaxActions) /\ LogAction(w, t, "a1")
    \/ \E w \in WindowArgs :
          Room(ctx, "context_snapshots", MaxSnapshots) /\ CreateSnapshot(w, "task A")

SpecInit == Init /\ [][NextInit]_vars

(* The recovery report on its own: one agent, sessions that are never     *)
(* ended, several snapshots and distinguishable actions.                   *)
NextRecover ==
    \/ InitMain(FALSE)
    \/ now < MaxClock /\ Tick
    \/ Room(ctx, "activity_windows", MaxWindows) /\ StartSession(SeedAgentId, "s1")
    \/ \E w \in 1..MaxWindows, t \in ActionTypes, s \in ActionSummaries :
          Room(ctx, "action_log", MaxActions) /\ LogAction(w, t, s)
    \/ \E w \in 1..MaxWindows, t \in Tasks :
          Room(ctx, "context_snapshots", MaxActions) /\ CreateSnapshot(w, t)
    \/ RecoverSession(None)

SpecRecover == Init /\ [][NextRecover]_vars

----------------------------------------------------------------------------
(* Properties *)

HasTables(db) == CONTEXT_SCHEMA \subseteq Tables(db)

Ids(rows) == {r.id : r \in rows}

Row(rows, id) == CHOOSE r \in rows : r.id = id

(* C1: a window is 'active' when start creates it, goes from 'active' to   *)
(* 'completed' only in an end operation on its own id, never goes back to  *)
(* 'active', and no logger operation deletes a window.                     *)
C1_WindowLifecycle ==
    [][(HasTables(ctx) /\ out'.cmd \in LoggerCmds) =>
         /\ \A w \in Windows(ctx) :
              /\ w.id \in Ids(Windows(ctx'))
              /\ w.status = "completed" => Row(Windows(ctx'), w.id).status = "completed"
              /\ (w.status = "active" /\ Row(Windows(ctx'), w.id).status # "active")
                   => /\ Row(Windows(ctx'), w.id).status = "completed"
                      /\ out'.cmd = "end"
                      /\ out'.window_id = w.id
         /\ \A v \in Windows(ctx') :
              v.id \notin Ids(Windows(ctx)) => (v.status = "active" /\ out'.cmd = "start")
         /\ Cardinality(Ids(Windows(ctx'))) = Cardinality(Windows(ctx'))
      ]_vars

C1_Witness ==
    /\ HasTables(ctx)
    /\ out.cmd = "end"
    /\ \E w \in Windows(ctx) : w.id = out.window_id /\ w.status = "completed"
    /\ \E w \in Windows(ctx) : w.id # out.window_id /\ w.status = "active"

(* C2: action or snapshot on a window id that is not in activity_windows   *)
(* reports the error and inserts nothing: the rows of action_log,          *)
(* context_snapshots and activity_windows are the same after the call.     *)
C2_UnknownWindowNoInsert ==
    [][(/\ HasTables(ctx)
        /\ out'.cmd \in {"action", "snapshot"}
        /\ out'.window_id \notin Ids(Windows(ctx)))
         => /\ out'.result = "not_found"
            /\ Actions(ctx') = Actions(ctx)
            /\ Snapshots(ctx') = Snapshots(ctx)
            /\ Windows(ctx') = Windows(ctx)
      ]_vars

C2_Witness ==
    /\ HasTables(ctx)
    /\ out.cmd \in {"action", "snapshot"}
    /\ out.result = "not_found"
    /\ out.window_id \notin Ids(Windows(ctx))
    /\ Windows(ctx) # {}

(* C3: every activity window references an existing agent, also when start *)
(* was called with an agent id that was never seeded.                      *)
C3_WindowAgentExists ==
    HasTables(ctx) =>
        \A w \in Windows(ctx) : \E a \in ctx.rows["agents"] : a.id = w.agent_id

(* C4: start(agent, summary) followed immediately by status(agent) shows   *)
(* exactly one active window, with the summary given to start and an       *)
(* action count of 0.                                                      *)
C4_StartThenStatusOne ==
    [][(/\ out.cmd = "start" /\ out.result = "ok"
        /\ out'.cmd = "status" /\ out'.agent_id = out.agent_id)
         => /\ Cardinality(out'.status_rows) = 1
            /\ \A r \in out'.status_rows :
                 r.session_summary = out.summary /\ r.actions = 0
      ]_vars

(* C4 as amended: start(agent, summary) followed immediately by            *)
(* status(agent) lists the window start created exactly once, with the     *)
(* summary given to start and an action count of 0; every listed window is *)
(* an active window, and one of that agent when the agent id is not empty. *)
C4_StartThenStatusListsNew ==
    [][(/\ out.cmd = "start" /\ out.result = "ok"
        /\ out'.cmd = "status" /\ out'.agent_id = out.agent_id)
         => /\ Cardinality({r \in out'.status_rows : r.id = out.new_id}) = 1
            /\ \A r \in out'.status_rows :
                 /\ r.id = out.new_id =>
                      /\ r.session_summary = out.summary
                      /\ r.actions = 0
                      /\ r.agent_id = out.agent_id
                 /\ Truthy(out.agent_id) => r.agent_id = out.agent_id
                 /\ \E w \in Windows(ctx) : w.id = r.id /\ w.status = "active"
      ]_vars

C4_Witness ==
    /\ out.cmd = "status"
    /\ Truthy(out.agent_id)
    /\ Cardinality(out.status_rows) = 2
    /\ \E r \in out.status_rows :
         /\ r.id = Max(Ids(Windows(ctx)))
         /\ r.actions = 0
         /\ r.session_summary = "s2"
    /\ Actions(ctx) # {}

(* C5: an action on a window increases the action count status reports    *)
(* for that window by exactly 1 and leaves the count reported for every    *)
(* other window unchanged.                                                 *)
C5_ActionCountsOne ==
    [][(/\ HasTables(ctx)
        /\ out'.cmd = "action" /\ out'.result = "ok"
        /\ out'.new_id \notin Ids(Actions(ctx)))
         => /\ \A w \in Windows(ctx) :
                 ActionCount(ctx', w.id) =
                     ActionCount(ctx, w.id) + (IF w.id = out'.window_id THEN 1 ELSE 0)
            /\ \A f \in AgentArgs :
                 /\ Ids(StatusQuery(ctx', f)) = Ids(StatusQuery(ctx, f))
                 /\ \A r \in StatusQuery(ctx, f) :
                      Row(StatusQuery(ctx', f), r.id) =
                          [r EXCEPT !.actions = IF r.id = out'.window_id THEN @ + 1 ELSE @]
      ]_vars

C5_Witness ==
    /\ HasTables(ctx)
    /\ out.cmd = "action" /\ out.result = "ok"
    /\ \E r \in StatusQuery(ctx, None) : r.id = out.window_id /\ r.actions = 2
    /\ \E r \in StatusQuery(ctx, None) : r.id # out.window_id /\ r.actions = 0

(* C6: once end has completed a window, no later status (filtered or not)  *)
(* and no later recover lists it, whatever logger operations follow, and   *)
(* every other active window stays listed.  Stated as the step every       *)
(* logger operation takes: a window that is completed, or that this step   *)
(* ends, is in no listing of the next state; any other active window is.   *)
C6_EndedNeverListed ==
    [][(HasTables(ctx) /\ out'.cmd \in LoggerCmds) =>
         \A w \in Windows(ctx) :
            IF w.status = "completed" \/ (out'.cmd = "end" /\ out'.window_id = w.id)
            THEN /\ \A f \in AgentArgs : w.id \notin Ids(StatusQuery(ctx', f))
                 /\ w.id \notin Ids(out'.status_rows)
                 /\ \A i \in 1..Len(out'.sessions) : out'.sessions[i].session.id # w.id
            ELSE /\ w.id \in Ids(StatusQuery(ctx', None))
                 /\ w.id \in Ids(StatusQuery(ctx', w.agent_id))
                 /\ (out'.cmd = "status" /\ out'.agent_id \in {None, "", w.agent_id})
                      => w.id \in Ids(out'.status_rows)
                 /\ (out'.cmd = "recover" /\ out'.agent_id \in {None, "", w.agent_id})
                      => \E i \in 1..Len(out'.sessions) : out'.sessions[i].session.id = w.id
      ]_vars

C6_Witness ==
    /\ HasTables(ctx)
    /\ out.cmd \in {"status", "recover"}
    /\ out.result = "ok"
    /\ \E w \in Windows(ctx) :
         /\ w.status = "completed"
         /\ out.agent_id \in {None, w.agent_id}
         /\ w.id \notin Ids(out.status_rows)
    /\ Ids(out.status_rows) \cup {out.sessions[i].session.id : i \in 1..Len(out.sessions)} # {}

(* C7: for each active window recover reports the task of the snapshot     *)
(* created last for it, and its actions logged last (at most 5), the most  *)
(* recently logged first.                                                  *)
LoggedLastFirst(rows) == CHOOSE s \in OrderByDesc(rows, "id") : TRUE

C7_RecoverMostRecentFirst ==
    (HasTables(ctx) /\ out.cmd = "recover" /\ out.result = "ok") =>
        \A i \in 1..Len(out.sessions) :
            LET wid == out.sessions[i].session.id
                snaps == {r \in Snapshots(ctx) : r.window_id = wid}
                acts == {r \in Actions(ctx) : r.window_id = wid}
            IN /\ out.sessions[i].snapshot =
                      SnapshotRows(Limit(LoggedLastFirst(snaps), 1))
               /\ out.sessions[i].actions =
                      ActionRows(Limit(LoggedLastFirst(acts), RecoverLimit))

(* C8: the initializer run again without reset keeps the seed agent and    *)
(* the four seed projects exactly once with their prior field values, and  *)
(* keeps every activity window, action log entry and context snapshot.     *)
C8_ReinitPreserves ==
    [][(/\ HasTables(ctx) /\ TASKS_SCHEMA \subseteq Tables(tasks)
        /\ SeedAgentId \in Ids(ctx.rows["agents"])
        /\ out'.cmd = "init" /\ ~out'.reset)
         => /\ Cardinality({a \in ctx'.rows["agents"] : a.id = SeedAgentId}) = 1
            /\ Row(ctx'.rows["agents"], SeedAgentId) = Row(ctx.rows["agents"], SeedAgentId)
            /\ \A i \in 1..Len(SeedProjectIds) :
                 /\ Cardinality({q \in tasks'.rows["projects"] : q.id = SeedProjectIds[i]}) = 1
                 /\ \A q \in tasks.rows["projects"] : q \in tasks'.rows["projects"]
            /\ Windows(ctx) \subseteq Windows(ctx')
            /\ Actions(ctx) \subseteq Actions(ctx')
            /\ Snapshots(ctx) \subseteq Snapshots(ctx')
      ]_vars

C8_Witness ==
    /\ HasTables(ctx)
    /\ out.cmd = "init" /\ ~out.reset
    /\ Windows(ctx) # {} /\ Actions(ctx) # {} /\ Snapshots(ctx) # {}
    /\ \E a \in ctx.rows["agents"] : a.id = SeedAgentId /\ a.last_active_at # NULL

(* C9: the initializer in reset mode on an existing database removes all   *)
(* prior data: afterwards there is no activity window, action log entry or *)
(* context snapshot, and the databases hold only the seed rows.            *)
C9_ResetLeavesOnlySeeds ==
    (out.cmd = "init" /\ out.reset) =>
        /\ ctx.rows = [t \in CONTEXT_SCHEMA |-> IF t = "agents" THEN {SeedAgent} ELSE {}]
        /\ tasks.rows = [t \in TASKS_SCHEMA |->
                           IF t = "projects"
                           THEN {SeedProject(i) : i \in 1..Len(SeedProjectIds)}
                           ELSE {}]

C9_Witness ==
    /\ out.cmd = "init" /\ out.reset /\ out.removed
    /\ Windows(ctx) = {}

(* C10: every logger operation opens exactly one connection and has closed *)
(* it when it returns, on every exit path.                                 *)
C10_ConnectionClosed ==
    (out.cmd \in LoggerCmds /\ out.result # "raised") => conn = Closed(1)

====
